---- MODULE Spec2Model ----
(***************************************************************************)
(* Model of src/resume.py: the generation dispatcher (call_api), the       *)
(* keyword extractor (extract_job_keywords), the refine-selected-sections  *)
(* handler and the document build (generate_pdf_file).                     *)
(*                                                                         *)
(* Text is a sequence of symbols.  A symbol Ch(c) is one character, or one *)
(* run of characters that no operation of the program splits (a word, a    *)
(* default sentence, the marker of a code fence).                          *)
(***************************************************************************)
EXTENDS FiniteSets, Integers, Sequences, TLC

\* ------------------------------------------------------------------ text

Ch(c) == [ch |-> c]

SP == Ch(" ")
NL == Ch("\n")
HY == Ch("-")

\* the characters str.strip() removes
Whitespace == {SP, NL}

\* all texts over an alphabet, up to a length
TextsUpTo(alphabet, n) == UNION {[1..k -> alphabet] : k \in 0..n}

RECURSIVE LStripSet(_, _)
\* str.lstrip(chars)
LStripSet(t, chars) ==
    IF t # <<>> /\ Head(t) \in chars THEN LStripSet(Tail(t), chars) ELSE t

RECURSIVE RStripSet(_, _)
\* str.rstrip(chars)
RStripSet(t, chars) ==
    IF t # <<>> /\ t[Len(t)] \in chars
    THEN RStripSet(SubSeq(t, 1, Len(t) - 1), chars)
    ELSE t

\* str.strip()
Strip(t) == RStripSet(LStripSet(t, Whitespace), Whitespace)

\* Python's None
None == [none |-> TRUE]

\* a str value
Str(t) == [text |-> t]

IsStr(v) == DOMAIN v = {"text"}

\* truth value of 'if v:' for v a str or None
Truthy(v) == IsStr(v) /\ v.text # <<>>

\* ------------------------------------------------------------ call_api

\* the options of the model radio
Providers == {"kimi", "openai", "deepseek"}

\* required_secrets of get_required_secrets
RequiredSecrets == {"OPENAI_API_KEY", "KIMI_API_KEY", "DEEPSEEK_API_KEY"}

\* the ceiling passed to requests.post
RequestTimeout == 30

\* What the provider side does to one requests.post: it raises, or it
\* answers with a status and a body.  'says' is the set of marker substrings
\* that str(e) contains.
Raises(cls, says) == [raises |-> cls, says |-> says]

Responds(status, shape, content) ==
    [status |-> status, shape |-> shape, content |-> content]

\* requests.exceptions.RequestException and the subclasses used here
RequestExceptions ==
    {"ConnectionError", "Timeout", "RequestException", "JSONDecodeError"}

\* Shapes of a response body:
\*   not_json      no JSON at all (response.json() raises)
\*   array         a JSON array
\*   object        a JSON object without "choices" and without "message"
\*   message       a JSON object {"message": ...} without "choices"
\*   choices_empty {"choices": []}
\*   choices_null  {"choices": null}
\*   no_message    {"choices": [{}]}
\*   no_content    {"choices": [{"message": {}}]}
\*   content_null  {"choices": [{"message": {"content": null}}]}
\*   content       {"choices": [{"message": {"content": <text>}}]}
BodyShapes ==
    {"not_json", "array", "object", "message", "choices_empty", "choices_null",
     "no_message", "no_content", "content_null", "content"}

\* the shapes on which response_json["choices"][0]["message"]["content"]
\* raises KeyError
KeyErrorShapes == {"object", "message", "no_message", "no_content"}

\* outcome of executing a block: a returned value or a raised exception
Returned(v, shown) == [returns |-> v, raises |-> "none", says |-> {}, shown |-> shown]

Raised(cls, says) == [returns |-> None, raises |-> cls, says |-> says, shown |-> "none"]

\* lines 163-168: the content of a 200 answer; KeyError is caught here
ContentOf(b) ==
    CASE b.shape = "content" -> Returned(Str(b.content), "none")
      [] b.shape = "content_null" -> Returned(None, "none")
      [] b.shape \in KeyErrorShapes -> Returned(None, "unexpected_format")
      [] b.shape = "choices_empty" -> Raised("IndexError", {})
      [] OTHER -> Raised("TypeError", {})

\* lines 145-153: a status other than 200; the payload's message is shown
\* when the body is a JSON object, and every fault of reading it is caught
ErrorStatus(b) ==
    IF b.shape \in {"not_json", "array"}
    THEN Returned(None, "provider_error_unreadable")
    ELSE Returned(None, "provider_error")

\* a faulty variant of TryBody: every 2xx status is read as a success
TryBodyAny2xx(b) ==
    IF "raises" \in DOMAIN b THEN Raised(b.raises, b.says)
    ELSE IF b.status \notin 200..299 THEN ErrorStatus(b)
    ELSE IF b.shape = "not_json" THEN Raised("JSONDecodeError", {})
    ELSE ContentOf(b)

\* lines 138-168: the body of the try block, for one answer of the provider
TryBody(b) ==
    IF "raises" \in DOMAIN b THEN Raised(b.raises, b.says)
    ELSE IF b.status # 200 THEN ErrorStatus(b)
    ELSE IF b.shape = "not_json" THEN Raised("JSONDecodeError", {})
    ELSE ContentOf(b)

\* lines 170-180: the message chosen for a RequestException
RequestExceptionMessage(says) ==
    IF "getaddrinfo failed" \in says THEN "connectivity"
    ELSE IF "unauthorized" \in says THEN "authentication"
    ELSE IF "404" \in says THEN "routing"
    ELSE "stumbled"

\* a faulty variant of Handlers: nothing is caught
HandlersNone(o) == o

\* a faulty variant of Handlers: only RequestException is caught
HandlersRequestOnly(o) ==
    IF o.raises = "none" THEN o
    ELSE IF o.raises \in RequestExceptions
    THEN Returned(None, RequestExceptionMessage(o.says))
    ELSE o

\* lines 170-183: the except clauses of call_api
Handlers(o) ==
    IF o.raises = "none" THEN o
    ELSE IF o.raises \in RequestExceptions
    THEN Returned(None, RequestExceptionMessage(o.says))
    ELSE Returned(None, "unclassified")

\* a faulty variant of CallApi: a failed request is sent a second time
CallApiRetry(model, secrets, attempts) ==
    IF model = "openai" /\ "OPENAI_API_KEY" \notin secrets
    THEN [result |-> None, raised |-> "KeyError", shown |-> "none", posts |-> 0]
    ELSE LET first == Handlers(TryBody(attempts[1]))
             again == Handlers(TryBody(attempts[2]))
         IN IF IsStr(first.returns)
            THEN [result |-> first.returns, raised |-> first.raises,
                  shown |-> first.shown, posts |-> 1]
            ELSE [result |-> again.returns, raised |-> again.raises,
                  shown |-> again.shown, posts |-> 2]

\* call_api(messages): 'attempts' is what the provider would do to the
\* first, second, ... request; the function sends one.  Line 95 reads the
\* OpenAI secret before the try block.
CallApi(model, secrets, attempts) ==
    IF model = "openai" /\ "OPENAI_API_KEY" \notin secrets
    THEN [result |-> None, raised |-> "KeyError", shown |-> "none", posts |-> 0]
    ELSE LET o == Handlers(TryBody(attempts[1]))
         IN [result |-> o.returns, raised |-> o.raises,
             shown |-> o.shown, posts |-> 1]

\* ------------------------------------------------- JSON values and json.loads

\* items of a JSON array: a string or a number
S(x) == [s |-> x]

N(x) == [n |-> x]

\* values of an object's fields: an array, or something that is no array
List(items) == [list |-> items]

Scalar(kind) == [scalar |-> kind]

IsList(v) == DOMAIN v = {"list"}

\* a parsed JSON document: an object (a dict from keys to field values), or
\* a value that is no object:
\*   array, number, null, true, string, and string_with_keys, a string in
\*   which every required key occurs as a substring
Obj(f) == [obj |-> f]

Lit(kind) == [lit |-> kind]

IsObj(v) == DOMAIN v = {"obj"}

EmptyDict == [k \in {} |-> Scalar("null")]

\* the symbol that is the text of a JSON document; the text of an object
\* starts with "{" and ends with "}", the text of the other documents holds
\* no brace
Json(v) == [json |-> v]

IsJson(sym) == DOMAIN sym = {"json"}

LB == Ch("{")
RB == Ch("}")
\* the three backticks of a code fence, and the same followed by json
FENCE == Ch("[fence]")
FENCE_JSON == Ch("[fence]json")

ParseOk(v) == [ok |-> TRUE, value |-> v]

ParseFailed == [ok |-> FALSE, value |-> Lit("null")]

\* json.loads(text): whitespace around the document is accepted; "{" and
\* "}" with only whitespace between them are the empty object
JsonLoads(t) ==
    LET u == Strip(t)
    IN IF Len(u) = 1 /\ IsJson(u[1]) THEN ParseOk(u[1].json)
       ELSE IF /\ Len(u) >= 2
               /\ u[1] = LB
               /\ u[Len(u)] = RB
               /\ \A i \in 2..(Len(u) - 1) : u[i] \in Whitespace
       THEN ParseOk(Obj(EmptyDict))
       ELSE ParseFailed

HasOpenBrace(sym) == sym = LB \/ (IsJson(sym) /\ IsObj(sym.json))

HasCloseBrace(sym) == sym = RB \/ (IsJson(sym) /\ IsObj(sym.json))

\* response.find('{'), as a position from 1, 0 when there is none
FindOpen(t) ==
    IF \E i \in 1..Len(t) : HasOpenBrace(t[i])
    THEN CHOOSE i \in 1..Len(t) :
            HasOpenBrace(t[i]) /\ \A j \in 1..(i - 1) : ~HasOpenBrace(t[j])
    ELSE 0

\* response.rfind('}') + 1, as the position of the last symbol of the
\* slice, 0 when there is none
RFindClose(t) ==
    IF \E i \in 1..Len(t) : HasCloseBrace(t[i])
    THEN CHOOSE i \in 1..Len(t) :
            HasCloseBrace(t[i]) /\ \A j \in (i + 1)..Len(t) : ~HasCloseBrace(t[j])
    ELSE 0

\* ------------------------------------------------- extract_job_keywords

\* required_keys, in the order of the validation loop
required_keys ==
    <<"technical_skills", "key_requirements", "ds_tools",
      "programming_languages", "metrics", "certifications">>

RequiredKeySet == {required_keys[i] : i \in 1..Len(required_keys)}

\* default_keywords()
default_keywords ==
    [k \in RequiredKeySet |->
        CASE k = "technical_skills" ->
                List(<<S("Data Analysis"), S("Machine Learning"), S("Python")>>)
          [] k = "key_requirements" ->
                List(<<S("Analytical Skills"), S("Technical Communication"),
                       S("Problem Solving")>>)
          [] k = "ds_tools" -> List(<<S("Pandas"), S("NumPy")>>)
          [] k = "programming_languages" -> List(<<S("Python"), S("SQL")>>)
          [] k = "metrics" ->
                List(<<S("process efficiency"), S("performance improvements")>>)
          [] OTHER -> List(<<>>)]

\* lines 609-617: strip, drop a leading fence+json, a leading fence, a
\* trailing fence, strip again.  Dropping three characters from fence+json
\* leaves json.
CleanResponse(t) ==
    LET a == Strip(t)
        b == IF a # <<>> /\ Head(a) = FENCE_JSON THEN Tail(a) ELSE a
        c == IF b # <<>> /\ Head(b) = FENCE THEN Tail(b)
             ELSE IF b # <<>> /\ Head(b) = FENCE_JSON
                  THEN <<Ch("json")>> \o Tail(b)
                  ELSE b
        d == IF c # <<>> /\ c[Len(c)] = FENCE
             THEN SubSeq(c, 1, Len(c) - 1)
             ELSE c
    IN Strip(d)

\* lines 620-635: json.loads, and on JSONDecodeError json.loads of the
\* slice from the first "{" to the last "}"
ParseResponse(t) ==
    LET direct == JsonLoads(t)
        start == FindOpen(t)
        end == RFindClose(t)
    IN IF direct.ok THEN direct
       ELSE IF start # 0 /\ end # 0 THEN JsonLoads(SubSeq(t, start, end))
       ELSE ParseFailed

\* a faulty variant of MissingKey: only the first required key is looked for
MissingKeyFirstOnly(result) ==
    IF IsObj(result)
    THEN IF required_keys[1] \notin DOMAIN result.obj
         THEN Returned(TRUE, "missing_key")
         ELSE Returned(FALSE, "none")
    ELSE CASE result.lit \in {"array", "string"} -> Returned(TRUE, "missing_key")
           [] result.lit = "string_with_keys" -> Returned(FALSE, "none")
           [] OTHER -> Raised("TypeError", {})

\* lines 640-643: 'key not in result' for some required key.  On a dict it
\* tests the keys, on a list the items, on a str the substrings; on a
\* number, null or a boolean it raises TypeError.
MissingKey(result) ==
    IF IsObj(result)
    THEN IF \E i \in 1..Len(required_keys) : required_keys[i] \notin DOMAIN result.obj
         THEN Returned(TRUE, "missing_key")
         ELSE Returned(FALSE, "none")
    ELSE CASE result.lit \in {"array", "string"} -> Returned(TRUE, "missing_key")
           [] result.lit = "string_with_keys" -> Returned(FALSE, "none")
           [] OTHER -> Raised("TypeError", {})

\* a faulty variant of NonListValue: the values are not looked at
NonListValueUnchecked(result) == Returned(FALSE, "none")

\* lines 646-649: some value of result.items() is no list; a value that is
\* no dict has no items() and raises AttributeError
NonListValue(result) ==
    IF IsObj(result)
    THEN IF \E k \in DOMAIN result.obj : ~IsList(result.obj[k])
         THEN Returned(TRUE, "invalid_value_type")
         ELSE Returned(FALSE, "none")
    ELSE Raised("AttributeError", {})

\* value and exception of extract_job_keywords
Extracted(keywords, raised, via) ==
    [keywords |-> keywords, raised |-> raised, via |-> via]

\* lines 604-651: the body of the try block after call_api has returned
ExtractBody(response) ==
    IF ~Truthy(response) THEN Returned(default_keywords, "empty_response")
    ELSE LET parsed == ParseResponse(CleanResponse(response.text))
         IN IF ~parsed.ok THEN Returned(default_keywords, "no_json")
            ELSE LET missing == MissingKey(parsed.value)
                     nonlist == NonListValue(parsed.value)
                 IN IF missing.raises # "none" THEN missing
                    ELSE IF missing.returns
                    THEN Returned(default_keywords, "missing_key")
                    ELSE IF nonlist.raises # "none" THEN nonlist
                    ELSE IF nonlist.returns
                    THEN Returned(default_keywords, "invalid_value_type")
                    ELSE Returned(parsed.value.obj, "parsed")

\* lines 653-660: every Exception of the try block gives default_keywords()
ExtractHandlers(o) ==
    IF o.raises = "none" THEN Extracted(o.returns, "none", o.shown)
    ELSE Extracted(default_keywords, "none", "exception")

\* extract_job_keywords(job_description), given what call_api does: the
\* call is inside the try block, so an exception of call_api is caught too
ExtractJobKeywords(api) ==
    ExtractHandlers(IF api.raised # "none" THEN Raised(api.raised, {})
                    ELSE ExtractBody(api.result))

\* ------------------------------------------------- sections and templates

\* the keys of the options dict of the refine handler, in its order
options ==
    <<"Summary", "Data Science Skills", "CS Skills", "Economics Skills",
      "Technical Skills", "Intel Corp Bullet 1", "Intel Corp Bullet 2",
      "Intel Corp Bullet 3", "NW Natural Bullet 1", "NW Natural Bullet 2",
      "NW Natural Bullet 3", "Selam Consultancy Bullet 1",
      "Selam Consultancy Bullet 2", "Selam Consultancy Bullet 3",
      "Auxilary Bullet 1", "Auxilary Bullet 2", "Auxilary Bullet 3",
      "Data Privacy Bullet 1", "Data Privacy Bullet 2", "Certifications Bullet">>

Sections == {options[i] : i \in 1..Len(options)}

\* default_refinements: every default is one run of characters without
\* whitespace at its ends, except that of "Certifications Bullet", which
\* starts with a hyphen and a space
default_refinements ==
    [key \in Sections |->
        CASE key = "Summary" -> <<Ch("Data Scientist with a master's ...")>>
          [] key = "Data Science Skills" -> <<Ch("ML | Python | SQL | R | Stats")>>
          [] key = "CS Skills" -> <<Ch("Neural Nets | CV | Robotics | AI | Algos")>>
          [] key = "Economics Skills" -> <<Ch("Econometrics | Data Analysis | Modeling")>>
          [] key = "Technical Skills" -> <<Ch("Python | SQL | Excel | Tableau | Azure")>>
          [] key = "Intel Corp Bullet 1" -> <<Ch("Designed and implemented ...")>>
          [] key = "Intel Corp Bullet 2" -> <<Ch("Collaborated with engineering ...")>>
          [] key = "Intel Corp Bullet 3" -> <<Ch("Provided hands-on support ...")>>
          [] key = "NW Natural Bullet 1" -> <<Ch("Built a Python-based ...")>>
          [] key = "NW Natural Bullet 2" -> <<Ch("Conducted benchmarking analysis ...")>>
          [] key = "NW Natural Bullet 3" -> <<Ch("Presented findings to managers ...")>>
          [] key = "Selam Consultancy Bullet 1" -> <<Ch("Developed Power BI dashboards ...")>>
          [] key = "Selam Consultancy Bullet 2" -> <<Ch("Implemented an automated ETL ...")>>
          [] key = "Selam Consultancy Bullet 3" -> <<Ch("Applied SQL queries ...")>>
          [] key = "Auxilary Bullet 1" -> <<Ch("Developed a business plan ...")>>
          [] key = "Auxilary Bullet 2" -> <<Ch("Led a team of five ...")>>
          [] key = "Auxilary Bullet 3" -> <<Ch("Balanced business and technical ...")>>
          [] key = "Data Privacy Bullet 1" -> <<Ch("Implemented automated code scans ...")>>
          [] key = "Data Privacy Bullet 2" -> <<Ch("Integrated privacy-by-design ...")>>
          [] OTHER -> <<HY, SP, Ch("Skills: Data Visualization (Power BI)")>>]

\* the named placeholders of refine_prompt_templates[key]
TemplateFields(key) ==
    CASE key = "Summary" ->
            {"key_skills", "technical_skills", "ds_tools", "original_summary",
             "key_requirements", "original"}
      [] key = "Data Science Skills" ->
            {"ds_tools", "key_requirements", "technical_skills", "original"}
      [] key = "CS Skills" -> {"key_requirements", "technical_skills", "original"}
      [] key = "Economics Skills" -> {"key_requirements", "original"}
      [] key = "Technical Skills" -> {"tech_stack", "original"}
      [] key = "Intel Corp Bullet 1" -> {"automation_terms", "metrics", "original"}
      [] key = "NW Natural Bullet 2" -> {"metrics", "original"}
      [] OTHER -> {"original"}

\* the keyword arguments of template.format in the refine handler
SuppliedFields ==
    {"key_skills", "key_requirements", "ds_tools", "tech_stack", "metrics",
     "certifications", "automation_terms", "technical_skills", "additional",
     "original"}

\* ------------------------------------------------- prompt of one section

\* keywords.get(key, default): the items of the list stored under key
KeywordItems(keywords, key, default) ==
    IF key \in DOMAIN keywords THEN keywords[key].list ELSE default

\* items[:n]
Take(items, n) == SubSeq(items, 1, IF Len(items) < n THEN Len(items) ELSE n)

IsStrItem(item) == DOMAIN item = {"s"}

RECURSIVE Joined(_)
\* ", ".join(items) for items that are all strings
Joined(items) ==
    IF items = <<>> THEN <<>>
    ELSE IF Len(items) = 1 THEN <<Ch(items[1].s)>>
    ELSE <<Ch(items[1].s), Ch(", ")>> \o Joined(Tail(items))

\* ", ".join raises TypeError on an item that is no str
JoinRaises(items) == \E i \in 1..Len(items) : ~IsStrItem(items[i])

\* a faulty variant of the lists: an absent field is joined as the empty
\* list for every keyword argument
JoinedListsNoFallback(keywords) ==
    [field \in SuppliedFields \ {"additional", "original"} |->
        CASE field = "key_skills" ->
                Take(KeywordItems(keywords, "technical_skills", <<>>), 3)
          [] field = "key_requirements" ->
                Take(KeywordItems(keywords, "key_requirements", <<>>), 2)
          [] field \in {"tech_stack", "technical_skills"} ->
                KeywordItems(keywords, "technical_skills", <<>>)
          [] OTHER -> KeywordItems(keywords, field, <<>>)]

\* the lists joined by lines 755-762, by keyword argument
JoinedLists(keywords) ==
    [field \in SuppliedFields \ {"additional", "original"} |->
        CASE field = "key_skills" ->
                Take(KeywordItems(keywords, "technical_skills", <<>>), 3)
          [] field = "key_requirements" ->
                Take(KeywordItems(keywords, "key_requirements", <<>>), 2)
          [] field = "ds_tools" -> KeywordItems(keywords, "ds_tools", <<>>)
          [] field = "tech_stack" -> KeywordItems(keywords, "technical_skills", <<>>)
          [] field = "metrics" ->
                KeywordItems(keywords, "metrics",
                             <<S("efficiency gains"), S("performance improvements")>>)
          [] field = "certifications" ->
                KeywordItems(keywords, "certifications", <<>>)
          [] field = "automation_terms" ->
                KeywordItems(keywords, "automation_terms",
                             <<S("process automation"), S("workflow optimization")>>)
          [] OTHER -> KeywordItems(keywords, "technical_skills", <<>>)]

\* lines 746-765: the prompt of one selected section.  The keyword arguments
\* are evaluated first (a join may raise TypeError), then format raises
\* KeyError for a placeholder of the template that is no keyword argument.
BuildPrompt(key, keywords, instructions) ==
    LET lists == JoinedLists(keywords)
    IN IF \E field \in DOMAIN lists : JoinRaises(lists[field])
       THEN Raised("TypeError", {})
       ELSE IF ~(TemplateFields(key) \subseteq SuppliedFields)
       THEN Raised("KeyError", {})
       ELSE Returned(
               [important |-> Strip(instructions),
                template |-> key,
                args |-> [field \in TemplateFields(key) |->
                            CASE field = "original" -> default_refinements[key]
                              [] field = "additional" -> instructions
                              [] OTHER -> Joined(lists[field])]],
               "none")

\* ------------------------------------------------- the session's overrides

\* the "refined_"+key entries of st.session_state: a dict from keys to text
NoOverrides == [key \in {} |-> <<>>]

\* st.session_state["refined_" + key] = text
Store(dict, key, text) ==
    [k \in DOMAIN dict \cup {key} |-> IF k = key THEN text ELSE dict[k]]

\* st.session_state.get("refined_" + key, default)
SessionGet(dict, key, default) ==
    IF key \in DOMAIN dict THEN dict[key] ELSE default

\* a faulty variant of AfterCall: the text is stored as returned
AfterCallUntrimmed(dict, key, refined_text) ==
    IF Truthy(refined_text) THEN Store(dict, key, refined_text.text) ELSE dict

\* a faulty variant of AfterCall: a failed call removes the entry
AfterCallDropOnFailure(dict, key, refined_text) ==
    IF Truthy(refined_text) THEN Store(dict, key, Strip(refined_text.text))
    ELSE [k \in DOMAIN dict \ {key} |-> dict[k]]

\* lines 770-771: 'if refined_text:' stores refined_text.strip()
AfterCall(dict, key, refined_text) ==
    IF Truthy(refined_text) THEN Store(dict, key, Strip(refined_text.text)) ELSE dict

\* a faulty variant of BuildText: the default is used also when an entry exists
BuildTextDefaultOnly(dict, key) ==
    IF key = "Certifications Bullet"
    THEN Strip(LStripSet(default_refinements[key], {HY, SP}))
    ELSE default_refinements[key]

\* lines 885-978: the text generate_pdf_file hands to section_body for a
\* key; that of "Certifications Bullet" goes through lstrip("- ").strip()
BuildText(dict, key) ==
    IF key = "Certifications Bullet"
    THEN Strip(LStripSet(SessionGet(dict, key, default_refinements[key]), {HY, SP}))
    ELSE SessionGet(dict, key, default_refinements[key])

\* ------------------------------------------------------------- state

VARIABLES
    pc,                       \* where the script is: boot, idle (waiting for
                              \* the user), extract, refine, render, stopped
    secrets,                  \* the names present in st.secrets
    selected_model,           \* st.session_state.selected_model
    job_description,          \* st.session_state.job_description
    additional_instructions,  \* the text of the instructions field
    checked,                  \* the keys whose checkbox is ticked
    keywords,                 \* keywords of the refine handler
    cursor,                   \* position in options the loop has reached
    overrides,                \* the "refined_"+key entries of st.session_state
    last,                     \* the latest call_api of the loop: its section,
                              \* whether the section had an entry, the outcome
    uncaught,                 \* the exception that ended the script run
    document,                 \* what the latest build handed to the renderer
    runlog,                   \* per section of the first run: what call_api gave
    x_api,                    \* keyword extraction alone: what the provider does
    x_out,                    \* keyword extraction alone: what extract returns
    d_pc,                     \* dispatcher alone: idle, connecting, reading,
                              \* returned
    d_model,                  \* dispatcher alone: the provider of the call
    d_attempts,               \* dispatcher alone: what the provider does
    d_silent,                 \* dispatcher alone: time since the provider's
                              \* latest sign of life
    d_elapsed,                \* dispatcher alone: time spent in requests.post
    d_out,                    \* dispatcher alone: what call_api gave
    l_in,                     \* loop alone: the ticked keys in the order they
                              \* are processed, the provider's answer to each,
                              \* keywords, instructions, the entries before
    l_run,                    \* loop alone: position, entries, prompts sent,
                              \* the exception that ended it
    r_in,                     \* build alone: font settings, entries, job
                              \* description, date
    r_doc,                    \* build alone: the latest build and download
    r_prev,                   \* build alone: the build before the latest
    n_text,                   \* a text function alone: its argument
    n_out                     \* a text function alone: its values

session_vars ==
    <<pc, secrets, selected_model, job_description, additional_instructions,
      checked, keywords, cursor, overrides, last, uncaught, document, runlog>>

extract_vars == <<x_api, x_out>>

dispatch_vars == <<d_pc, d_model, d_attempts, d_silent, d_elapsed, d_out>>

loop_vars == <<l_in, l_run>>

render_vars == <<r_in, r_doc, r_prev>>

norm_vars == <<n_text, n_out>>

aside_vars == <<loop_vars, render_vars, norm_vars>>

vars == <<session_vars, extract_vars, dispatch_vars, aside_vars>>

NoKeywords == [k \in {} |-> List(<<>>)]

NoCall ==
    [key |-> "none", had |-> FALSE, result |-> None, posts |-> 0,
     shown |-> "none"]

NoDocument == [built |-> FALSE, texts |-> NoOverrides, posts |-> 0]

NoLog ==
    [clicked |-> FALSE, selected |-> {}, calls |-> [k \in {} |-> NoCall],
     ended |-> "no"]

NoApi == [result |-> None, raised |-> "none", shown |-> "none", posts |-> 0]

NoExtract == Extracted(NoKeywords, "none", "none")

\* ------------------------------------------------------------ bounds

\* longest text a provider returns to a refinement call
MaxAnswerLen == 2

\* the characters of those texts: a space, a hyphen, a word
SkilledAnalyst == Ch("Skilled Analyst...")

AnswerChars == {SP, HY, SkilledAnalyst}

AnswerTexts == TextsUpTo(AnswerChars, MaxAnswerLen)

\* the checkboxes the user ticks
Toggled == {"Summary", "Technical Skills", "Certifications Bullet"}

\* the checkboxes the user ticks for the first run of a session
RunToggled == Toggled \cup {"Intel Corp Bullet 1"}

\* the job descriptions the user enters: none, blank, some text
JobDescriptions == {<<>>, <<SP>>, <<Ch("Data Analyst at Acme")>>}

\* the additional instructions the user enters
Instructions == {<<>>, <<Ch("Keep it short")>>}

\* a well-formed answer to the keyword request
ValidKeywords ==
    [k \in RequiredKeySet |->
        CASE k = "technical_skills" ->
                List(<<S("SQL"), S("Spark"), S("Python"), S("Airflow")>>)
          [] k = "key_requirements" ->
                List(<<S("Ownership"), S("Communication"), S("Mentoring")>>)
          [] k = "ds_tools" -> List(<<S("dbt")>>)
          [] k = "programming_languages" -> List(<<S("Python")>>)
          [] k = "metrics" -> List(<<S("latency")>>)
          [] OTHER -> List(<<S("AWS SA")>>)]

\* the same with a number among the technical skills
NumberKeywords ==
    [ValidKeywords EXCEPT !["technical_skills"] = List(<<S("SQL"), N(5)>>)]

\* ways a provider fails a call
Failures ==
    {Raises("ConnectionError", {"getaddrinfo failed"}),
     Raises("Timeout", {}),
     Responds(500, "message", <<>>),
     Responds(200, "choices_empty", <<>>),
     Responds(200, "content_null", <<>>)}

\* what a provider does to a refinement call
RefineAnswers == Failures \cup {Responds(200, "content", t) : t \in AnswerTexts}

\* what a provider does to the keyword call of a session
KeywordAnswers ==
    {Raises("Timeout", {}),
     Responds(200, "content", <<Json(Obj(ValidKeywords))>>),
     Responds(200, "content", <<FENCE_JSON, Json(Obj(NumberKeywords)), FENCE>>)}

\* the provider treats a repeated request as it treated the first
Attempts(b) == <<b, b>>

\* what a provider does to the job-details call of a build
DetailAnswers ==
    {Raises("Timeout", {}),
     Responds(200, "content", <<Ch("Data Analyst"), Ch("|"), Ch("Acme")>>)}

\* ------------------------------------------------------ the session

SessionStart ==
    /\ pc = "boot"
    /\ secrets \in SUBSET RequiredSecrets
    /\ selected_model = "kimi"
    /\ job_description = <<>>
    /\ additional_instructions = <<>>
    /\ checked = {}
    /\ keywords = NoKeywords
    /\ cursor = 0
    /\ overrides = NoOverrides
    /\ last = NoCall
    /\ uncaught = "none"
    /\ document = NoDocument
    /\ runlog = NoLog

ExtractOff == x_api = NoApi /\ x_out = NoExtract

\* the loop, the build and normalize_text are not run on their own
LoopOff == l_in = <<>> /\ l_run = <<>>

RenderOff == r_in = <<>> /\ r_doc = <<>> /\ r_prev = <<>>

NormOff == n_text = <<>> /\ n_out = <<>>

AsideOff == LoopOff /\ RenderOff /\ NormOff

DispatchOff ==
    /\ d_pc = "off"
    /\ d_model = "kimi"
    /\ d_attempts = <<>>
    /\ d_silent = 0
    /\ d_elapsed = 0
    /\ d_out = NoApi

\* the position in options of the first ticked key at or after position
\* from, 0 when there is none
NextSelected(from, ticked) ==
    IF \E i \in from..Len(options) : options[i] \in ticked
    THEN CHOOSE i \in from..Len(options) :
            /\ options[i] \in ticked
            /\ \A j \in from..(i - 1) : options[j] \notin ticked
    ELSE 0

\* get_required_secrets at the start of the script: st.stop() when a secret
\* is missing, else the script goes on to the build
Boot ==
    /\ pc = "boot"
    /\ pc' = IF RequiredSecrets \subseteq secrets THEN "render" ELSE "stopped"
    /\ UNCHANGED <<secrets, selected_model, job_description,
                   additional_instructions, checked, keywords, cursor,
                   overrides, last, uncaught, document>>
    /\ UNCHANGED <<extract_vars, dispatch_vars, aside_vars>>

\* the names of the script start empty at every script run; the entries of
\* st.session_state and the secrets stay
ScriptStart ==
    /\ keywords' = NoKeywords
    /\ cursor' = 0
    /\ last' = NoCall
    /\ uncaught' = "none"
    /\ document' = NoDocument
    /\ UNCHANGED <<secrets, overrides>>
    /\ UNCHANGED <<extract_vars, dispatch_vars, aside_vars>>

\* lines 69-75: the user picks a model; the script runs again
SetModel(m) ==
    /\ pc = "idle"
    /\ m # selected_model
    /\ pc' = "render"
    /\ selected_model' = m
    /\ UNCHANGED <<job_description, additional_instructions, checked>>
    /\ ScriptStart

\* lines 388-404: the user edits the job description; the script runs again
SetJobDescription(jd) ==
    /\ pc = "idle"
    /\ jd # job_description
    /\ pc' = "render"
    /\ job_description' = jd
    /\ UNCHANGED <<selected_model, additional_instructions, checked>>
    /\ ScriptStart

\* lines 406-409: the user edits the instructions; the script runs again
SetInstructions(instr) ==
    /\ pc = "idle"
    /\ instr # additional_instructions
    /\ pc' = "render"
    /\ additional_instructions' = instr
    /\ UNCHANGED <<selected_model, job_description, checked>>
    /\ ScriptStart

\* lines 675-712: the user ticks or clears a checkbox; the script runs again
Toggle(key) ==
    /\ pc = "idle"
    /\ pc' = "render"
    /\ checked' = IF key \in checked THEN checked \ {key} ELSE checked \cup {key}
    /\ UNCHANGED <<selected_model, job_description, additional_instructions>>
    /\ ScriptStart

\* lines 714-719: the user presses "Refine Selected Sections"; a blank job
\* description gets the warning and nothing else
ClickRefine ==
    /\ pc = "idle"
    /\ pc' = IF Strip(job_description) = <<>> THEN "render" ELSE "extract"
    /\ UNCHANGED <<selected_model, job_description, additional_instructions,
                   checked>>
    /\ ScriptStart

\* line 719: keywords = extract_job_keywords(job_desc)
ExtractKeywords(b) ==
    /\ pc = "extract"
    /\ LET got == ExtractJobKeywords(CallApi(selected_model, secrets, Attempts(b)))
       IN /\ keywords' = got.keywords
          /\ uncaught' = got.raised
          /\ pc' = IF got.raised = "none" THEN "refine" ELSE "idle"
    /\ cursor' = 1
    /\ UNCHANGED <<secrets, selected_model, job_description,
                   additional_instructions, checked, overrides, last, document>>
    /\ UNCHANGED <<extract_vars, dispatch_vars, aside_vars>>

\* lines 744-771: one pass of the loop for the next ticked key: the prompt,
\* the call, the entry.  An exception of the prompt or of the call is not
\* caught: the script run ends there.
RefineSection(b) ==
    /\ pc = "refine"
    /\ NextSelected(cursor, checked) # 0
    /\ LET at == NextSelected(cursor, checked)
           key == options[at]
           prompt == BuildPrompt(key, keywords, additional_instructions)
           api == CallApi(selected_model, secrets, Attempts(b))
       IN IF prompt.raises # "none"
          THEN /\ uncaught' = prompt.raises
               /\ pc' = "idle"
               /\ UNCHANGED <<overrides, last, cursor>>
          ELSE IF api.raised # "none"
          THEN /\ uncaught' = api.raised
               /\ pc' = "idle"
               /\ UNCHANGED <<overrides, last, cursor>>
          ELSE /\ last' = [key |-> key, had |-> key \in DOMAIN overrides,
                           result |-> api.result, posts |-> api.posts,
                           shown |-> api.shown]
               /\ overrides' = AfterCall(overrides, key, api.result)
               /\ cursor' = at + 1
               /\ UNCHANGED <<pc, uncaught>>
    /\ UNCHANGED <<secrets, selected_model, job_description,
                   additional_instructions, checked, keywords, document>>
    /\ UNCHANGED <<extract_vars, dispatch_vars, aside_vars>>

\* lines 772-773: the loop is over
FinishRun ==
    /\ pc = "refine"
    /\ NextSelected(cursor, checked) = 0
    /\ pc' = "render"
    /\ UNCHANGED <<secrets, selected_model, job_description,
                   additional_instructions, checked, keywords, cursor,
                   overrides, last, uncaught, document>>
    /\ UNCHANGED <<extract_vars, dispatch_vars, aside_vars>>

\* lines 1007-1009 and generate_pdf_file: with a job description that is
\* not blank extract_job_details calls call_api; then every section's text
\* is read and handed to the renderer.  An exception is caught at line 1144
\* and no document is shown.
Render(b) ==
    /\ pc = "render"
    /\ pc' = "idle"
    /\ LET asked == Strip(job_description) # <<>>
           api == IF asked THEN CallApi(selected_model, secrets, Attempts(b))
                  ELSE NoApi
       IN document' =
            IF api.raised # "none" THEN NoDocument
            ELSE [built |-> TRUE,
                  texts |-> [key \in Sections |-> BuildText(overrides, key)],
                  posts |-> api.posts]
    /\ UNCHANGED <<secrets, selected_model, job_description,
                   additional_instructions, checked, keywords, cursor,
                   overrides, last, uncaught>>
    /\ UNCHANGED <<extract_vars, dispatch_vars, aside_vars>>

\* ---------------------------------------------- Spec: a session, any runs
\* (the instructions field is left empty)

Init == SessionStart /\ ExtractOff /\ DispatchOff /\ AsideOff

Next ==
    \/ Boot /\ UNCHANGED runlog
    \/ \E m \in Providers : SetModel(m) /\ UNCHANGED runlog
    \/ \E jd \in JobDescriptions : SetJobDescription(jd) /\ UNCHANGED runlog
    \/ \E key \in Toggled : Toggle(key) /\ UNCHANGED runlog
    \/ ClickRefine /\ UNCHANGED runlog
    \/ \E b \in KeywordAnswers : ExtractKeywords(b) /\ UNCHANGED runlog
    \/ \E b \in RefineAnswers : RefineSection(b) /\ UNCHANGED runlog
    \/ FinishRun /\ UNCHANGED runlog
    \/ \E b \in DetailAnswers : Render(b) /\ UNCHANGED runlog

Spec == Init /\ [][Next]_vars

\* ------------------------- RunSpec: the first run of a session, logged
\* (with the model of the session's start)

RunClick ==
    /\ ~runlog.clicked
    /\ ClickRefine
    /\ runlog' = [clicked |-> TRUE, selected |-> checked,
                  calls |-> [k \in {} |-> NoCall],
                  ended |-> IF Strip(job_description) = <<>> THEN "refused"
                            ELSE "no"]

RunExtract(b) ==
    /\ ExtractKeywords(b)
    /\ runlog' = IF uncaught' # "none" THEN [runlog EXCEPT !.ended = "aborted"]
                 ELSE runlog

RunRefine(b) ==
    /\ RefineSection(b)
    /\ runlog' = IF uncaught' # "none" THEN [runlog EXCEPT !.ended = "aborted"]
                 ELSE [runlog EXCEPT !.calls = Store(@, last'.key, last')]

RunFinish ==
    /\ FinishRun
    /\ runlog' = [runlog EXCEPT !.ended = "completed"]

\* the widgets are set before the button is pressed
RunSetup == ~runlog.clicked /\ UNCHANGED runlog

RunNext ==
    \/ Boot /\ UNCHANGED runlog
    \/ \E jd \in JobDescriptions : RunSetup /\ SetJobDescription(jd)
    \/ \E instr \in Instructions : RunSetup /\ SetInstructions(instr)
    \/ \E key \in RunToggled : RunSetup /\ Toggle(key)
    \/ RunClick
    \/ \E b \in KeywordAnswers : RunExtract(b)
    \/ \E b \in RefineAnswers : RunRefine(b)
    \/ RunFinish
    \/ \E b \in DetailAnswers : Render(b) /\ UNCHANGED runlog

RunSpec == Init /\ [][RunNext]_vars

\* ------------------------------------------------------ properties

CertKey == "Certifications Bullet"

\* u is t without the whitespace at its two ends
IsTrimOf(u, t) ==
    \E i \in 1..(Len(t) + 1), j \in 0..Len(t) :
        /\ u = SubSeq(t, i, j)
        /\ \A k \in 1..(i - 1) : t[k] \in Whitespace
        /\ \A k \in (j + 1)..Len(t) : t[k] \in Whitespace
        /\ u # <<>> => (u[1] \notin Whitespace /\ u[Len(u)] \notin Whitespace)

\* u is t without its leading hyphens and spaces and without the whitespace
\* at its end
IsCertCleanOf(u, t) ==
    \E i \in 1..(Len(t) + 1) :
        /\ \A k \in 1..(i - 1) : t[k] \in {HY, SP}
        /\ i <= Len(t) => t[i] \notin {HY, SP}
        /\ IsTrimOf(u, SubSeq(t, i, Len(t)))

\* the entry of a key when there is one, else its static default
Chosen(key) ==
    IF key \in DOMAIN overrides THEN overrides[key] ELSE default_refinements[key]

\* C1 as stated: for every section the build resolves the stored override,
\* and the static default when none is stored, untransformed.
C1_ResolveIsOverrideElseDefault ==
    document.built => \A key \in Sections : document.texts[key] = Chosen(key)

\* C1 as amended: for every section other than "Certifications Bullet" the
\* build resolves the stored override, and the static default when none is
\* stored; for "Certifications Bullet" it resolves that same text with its
\* leading hyphens and spaces and its surrounding whitespace removed.
C1_ResolveAmended ==
    document.built =>
        \A key \in Sections :
            IF key = CertKey
            THEN IsCertCleanOf(document.texts[key], Chosen(key))
            ELSE document.texts[key] = Chosen(key)

\* C1 witness: a built document with an override for the certifications
\* that starts with a hyphen, an override for another section, and a section
\* without override.
C1_Witness ==
    /\ document.built
    /\ CertKey \in DOMAIN overrides
    /\ overrides[CertKey] # <<>>
    /\ overrides[CertKey][1] = HY
    /\ "Technical Skills" \in DOMAIN overrides
    /\ "Summary" \notin DOMAIN overrides

\* C2 as stated: whatever text the dispatcher returned for the section of
\* the latest call, empty or not, its trimmed form is the section's override
\* and is what resolving the section gives.
C2_AnyTextBecomesOverride ==
    (last.key # "none" /\ IsStr(last.result)) =>
        /\ last.key \in DOMAIN overrides
        /\ IsTrimOf(overrides[last.key], last.result.text)
        /\ document.built => document.texts[last.key] = overrides[last.key]

\* C2 as amended: when the dispatcher returned a text that is not empty for
\* the section of the latest call, its trimmed form is the section's
\* override, whether or not the section had one, and the build resolves that
\* override (for "Certifications Bullet" without its leading hyphens and
\* spaces); an empty text writes nothing.
C2_NonEmptyTextBecomesOverride ==
    /\ (last.key # "none" /\ IsStr(last.result) /\ last.result.text # <<>>) =>
          /\ last.key \in DOMAIN overrides
          /\ IsTrimOf(overrides[last.key], last.result.text)
          /\ document.built =>
                IF last.key = CertKey
                THEN IsCertCleanOf(document.texts[last.key], overrides[last.key])
                ELSE document.texts[last.key] = overrides[last.key]
    /\ (last.key # "none" /\ last.result = Str(<<>>)) =>
          (last.key \in DOMAIN overrides <=> last.had)

\* C2 witness: a text with whitespace around a word was returned for a
\* section that had an override, and the document has been built since.
C2_Witness ==
    /\ last.key = "Technical Skills"
    /\ last.had
    /\ last.result = Str(<<SP, SkilledAnalyst>>)
    /\ overrides["Technical Skills"] = <<SkilledAnalyst>>
    /\ document.built

\* C3 as stated: a first run with a job description, only "Summary" ticked
\* and the dispatcher returning "Skilled Analyst..." completes; afterwards
\* "Summary" resolves to that text and every other section to its default.
C3_SummaryScenario ==
    (runlog.clicked /\ runlog.selected = {"Summary"} /\ runlog.ended # "no"
        /\ Strip(job_description) # <<>>) =>
        /\ runlog.ended = "completed"
        /\ "Summary" \in DOMAIN runlog.calls
        /\ runlog.calls["Summary"].result = Str(<<SkilledAnalyst>>) =>
              Chosen("Summary") = <<SkilledAnalyst>>
        /\ \A key \in Sections \ {"Summary"} : Chosen(key) = default_refinements[key]

\* C4: a call that failed for a section was a single request with a single
\* failure outcome, the loop went on past the section, and no override
\* changed: an entry kept its value, a missing entry stayed missing.
C4_FailureIsOneAttemptNoChange ==
    [][(pc = "refine" /\ cursor' > cursor /\ last'.result = None) =>
          /\ last'.posts = 1
          /\ last'.key = options[NextSelected(cursor, checked)]
          /\ cursor' = NextSelected(cursor, checked) + 1
          /\ pc' = "refine"
          /\ uncaught' = "none"
          /\ overrides' = overrides]_vars

\* C4 witness: the latest call failed for a section that had an override,
\* and the override is still there.
C4_Witness ==
    /\ last.key = CertKey
    /\ last.result = None
    /\ last.had
    /\ CertKey \in DOMAIN overrides

MaxWrapLen == 2

\* the characters around the document: whitespace, fences, prose, braces
WrapChars == {SP, FENCE_JSON, FENCE, Ch("x"), LB, RB}

\* the text before and the text after the document
Wraps ==
    {w \in TextsUpTo(WrapChars, MaxWrapLen) \X TextsUpTo(WrapChars, MaxWrapLen) :
        Len(w[1]) + Len(w[2]) <= MaxWrapLen}

\* the well-formed answer with one more key
ExtraKeywords(v) ==
    [k \in RequiredKeySet \cup {"notes"} |->
        IF k = "notes" THEN v ELSE ValidKeywords[k]]

\* the documents of an answer
Documents ==
    {Obj(ValidKeywords), Obj(NumberKeywords),
     Obj(ExtraKeywords(List(<<S("remote")>>))),
     Obj(ExtraKeywords(Scalar("string")))}
    \cup {Obj([k \in RequiredKeySet \ {gone} |-> ValidKeywords[k]]) :
            gone \in RequiredKeySet}
    \cup {Obj([ValidKeywords EXCEPT ![k] = Scalar(kind)]) :
            k \in RequiredKeySet, kind \in {"string", "null"}}
    \cup {Lit(kind) : kind \in {"array", "number", "null", "true", "string",
                                "string_with_keys"}}

\* the texts a provider answers to the keyword request
ResponseTexts ==
    {w[1] \o w[2] : w \in Wraps}
    \cup {w[1] \o <<Json(v)>> \o w[2] : w \in Wraps, v \in Documents}

ExtractAnswers ==
    Failures \cup {Responds(200, "content", t) : t \in ResponseTexts}

\* the session around the call: started, with one of the providers chosen
SessionOff ==
    /\ pc = "off"
    /\ secrets = RequiredSecrets
    /\ selected_model \in Providers
    /\ job_description = <<Ch("Data Analyst at Acme")>>
    /\ additional_instructions = <<>>
    /\ checked = {}
    /\ keywords = NoKeywords
    /\ cursor = 0
    /\ overrides = NoOverrides
    /\ last = NoCall
    /\ uncaught = "none"
    /\ document = NoDocument
    /\ runlog = NoLog

ExtractInit ==
    /\ SessionOff
    /\ AsideOff
    /\ DispatchOff
    /\ x_api \in ExtractAnswers
    /\ x_out = NoExtract

\* extract_job_keywords(job_description) runs and returns
ExtractReturn ==
    /\ x_out = NoExtract
    /\ x_out' = ExtractJobKeywords(CallApi(selected_model, secrets, Attempts(x_api)))
    /\ UNCHANGED <<session_vars, dispatch_vars, aside_vars, x_api>>

ExtractNext == ExtractReturn

ExtractSpec == ExtractInit /\ [][ExtractNext]_vars

\* ------------------------------------- properties of keyword extraction

\* extract has returned
HasExtracted == x_out # NoExtract

\* the provider answered with a text
AnsweredText == "raises" \notin DOMAIN x_api /\ x_api.status = 200 /\ x_api.shape = "content"

\* u holds exactly the text of document v
IsTextOf(u, v) ==
    \/ u = <<Json(v)>>
    \/ /\ v = Obj(EmptyDict)
       /\ Len(u) >= 2
       /\ u[1] = LB
       /\ u[Len(u)] = RB
       /\ \A i \in 2..(Len(u) - 1) : u[i] \in Whitespace

\* the documents the parsing policy finds in text t: the whole text, or the
\* part of it from its first "{" to its last "}"
PolicyDocs(t) ==
    {v \in Documents \cup {Obj(EmptyDict)} :
        \/ \E u \in {SubSeq(t, i, j) : i \in 1..(Len(t) + 1), j \in 0..Len(t)} :
              IsTrimOf(u, t) /\ IsTextOf(u, v)
        \/ \E i \in 1..Len(t), j \in 1..Len(t) :
              /\ HasOpenBrace(t[i])
              /\ \A k \in 1..(i - 1) : ~HasOpenBrace(t[k])
              /\ HasCloseBrace(t[j])
              /\ \A k \in (j + 1)..Len(t) : ~HasCloseBrace(t[k])
              /\ IsTextOf(SubSeq(t, i, j), v)}

\* text t without the whitespace and the code-fence marker around it
PolicyTrim(t) ==
    LET a == Strip(t)
        b == IF a # <<>> /\ a[1] \in {FENCE, FENCE_JSON} THEN Tail(a) ELSE a
        c == IF b # <<>> /\ b[Len(b)] = FENCE THEN SubSeq(b, 1, Len(b) - 1) ELSE b
    IN Strip(c)

\* an object with the six required keys
HasRequiredKeys(v) == IsObj(v) /\ RequiredKeySet \subseteq DOMAIN v.obj

\* the kinds of malformed answer: an empty text, a text without JSON, JSON
\* that is no object, an object without one of the six keys, an object with
\* a value that is no array
Malformed(t) ==
    \/ t = <<>>
    \/ PolicyDocs(PolicyTrim(t)) = {}
    \/ \E v \in PolicyDocs(PolicyTrim(t)) :
          \/ ~IsObj(v)
          \/ ~HasRequiredKeys(v)
          \/ \E k \in DOMAIN v.obj : ~IsList(v.obj[k])

\* C6: when the dispatcher failed, or answered with a malformed text, extract
\* returns the default record in whole and raises nothing.
C6_MalformedGivesDefault ==
    (HasExtracted /\ (x_api \in Failures \/ (AnsweredText /\ Malformed(x_api.content)))) =>
        /\ x_out.keywords = default_keywords
        /\ x_out.raised = "none"

\* C6 witness: extract has returned the default record for a fenced object
\* whose "metrics" is no array.
C6_Witness ==
    /\ HasExtracted
    /\ AnsweredText
    /\ x_api.content =
          <<FENCE_JSON,
            Json(Obj([ValidKeywords EXCEPT !["metrics"] = Scalar("string")])),
            FENCE>>
    /\ x_out.keywords = default_keywords

\* C7: every record extract returns has the six required keys, and each of
\* the six values is a sequence of strings.
C7_SixKeysOfStrings ==
    HasExtracted =>
        /\ RequiredKeySet \subseteq DOMAIN x_out.keywords
        /\ \A k \in RequiredKeySet :
              /\ IsList(x_out.keywords[k])
              /\ \A i \in 1..Len(x_out.keywords[k].list) :
                    IsStrItem(x_out.keywords[k].list[i])

\* C8 as stated: for an answered text, extract returns the document the
\* parsing policy finds when it is an object with the six required keys
\* whose six values are sequences, and the default record otherwise.
C8_PolicyRequiredValues ==
    (HasExtracted /\ AnsweredText) =>
        LET docs == PolicyDocs(PolicyTrim(x_api.content))
            good == {v \in docs : /\ HasRequiredKeys(v)
                                  /\ \A k \in RequiredKeySet : IsList(v.obj[k])}
        IN /\ x_out.raised = "none"
           /\ \A v \in good : x_out.keywords = v.obj
           /\ good = {} => x_out.keywords = default_keywords

\* C8 as amended: for an answered text, extract returns the document the
\* parsing policy finds when it is an object with the six required keys and
\* every value of the object, required or not, is a sequence; it returns the
\* default record otherwise.
C8_PolicyAllValues ==
    (HasExtracted /\ AnsweredText) =>
        LET docs == PolicyDocs(PolicyTrim(x_api.content))
            good == {v \in docs : /\ HasRequiredKeys(v)
                                  /\ \A k \in DOMAIN v.obj : IsList(v.obj[k])}
        IN /\ x_out.raised = "none"
           /\ \A v \in good : x_out.keywords = v.obj
           /\ good = {} => x_out.keywords = default_keywords

\* C8 witness: prose before an object with the six keys and a seventh, all
\* values sequences; extract returned the object.
C8_Witness ==
    /\ HasExtracted
    /\ AnsweredText
    /\ x_api.content = <<Ch("x"), Json(Obj(ExtraKeywords(List(<<S("remote")>>))))>>
    /\ x_out.keywords = ExtraKeywords(List(<<S("remote")>>))

\* ------------------------------------------------- the dispatcher alone

\* the clock of a call stops counting here
MaxClock == 45

\* what a provider, or the library on its behalf, does to a request
DispatchAnswers ==
    {Raises("ConnectionError", {"getaddrinfo failed"}),
     Raises("ConnectionError", {}),
     Raises("RequestException", {"unauthorized"}),
     Raises("RequestException", {"404"}),
     Raises("RequestException", {}),
     Raises("ValueError", {})}
    \cup {Responds(status, shape, <<SkilledAnalyst>>) :
            status \in {200, 201, 401, 404, 500}, shape \in BodyShapes}

DispatchInit ==
    /\ SessionStart
    /\ AsideOff
    /\ ExtractOff
    /\ d_pc = "idle"
    /\ d_model = "kimi"
    /\ d_attempts = <<>>
    /\ d_silent = 0
    /\ d_elapsed = 0
    /\ d_out = NoApi

Waiting == d_pc \in {"connecting", "reading"}

\* line 143: call_api(messages) with provider m selected reaches
\* requests.post; the script has passed get_required_secrets
BeginCall(m) ==
    /\ pc = "render"
    /\ d_pc = "idle"
    /\ d_pc' = "connecting"
    /\ d_model' = m
    /\ d_silent' = 0
    /\ d_elapsed' = 0
    /\ UNCHANGED <<d_attempts, d_out>>
    /\ UNCHANGED <<session_vars, extract_vars, aside_vars>>

\* one unit of time passes in requests.post(..., timeout=30): the ceiling is
\* on the wait for the connection and on each wait for bytes
Tick ==
    /\ Waiting
    /\ d_silent < RequestTimeout
    /\ d_silent' = d_silent + 1
    /\ d_elapsed' = IF d_elapsed < MaxClock THEN d_elapsed + 1 ELSE MaxClock
    /\ UNCHANGED <<d_pc, d_model, d_attempts, d_out>>
    /\ UNCHANGED <<session_vars, extract_vars, aside_vars>>

\* the provider accepts the connection before the ceiling
Connect ==
    /\ d_pc = "connecting"
    /\ d_silent < RequestTimeout
    /\ d_pc' = "reading"
    /\ d_silent' = 0
    /\ UNCHANGED <<d_model, d_attempts, d_elapsed, d_out>>
    /\ UNCHANGED <<session_vars, extract_vars, aside_vars>>

\* the provider sends some bytes of its answer before the ceiling
SendBytes ==
    /\ d_pc = "reading"
    /\ 0 < d_silent
    /\ d_silent < RequestTimeout
    /\ d_silent' = 0
    /\ UNCHANGED <<d_pc, d_model, d_attempts, d_elapsed, d_out>>
    /\ UNCHANGED <<session_vars, extract_vars, aside_vars>>

\* the call ends with what the provider did, b, and call_api returns
EndCall(b) ==
    /\ d_attempts' = Attempts(b)
    /\ d_out' = CallApi(d_model, secrets, Attempts(b))
    /\ d_pc' = "returned"
    /\ UNCHANGED <<d_model, d_silent, d_elapsed>>
    /\ UNCHANGED <<session_vars, extract_vars, aside_vars>>

\* requests.post raises before the ceiling
Fail(b) ==
    /\ Waiting
    /\ d_silent < RequestTimeout
    /\ "raises" \in DOMAIN b
    /\ EndCall(b)

\* the last bytes of the answer arrive before the ceiling
Complete(b) ==
    /\ d_pc = "reading"
    /\ d_silent < RequestTimeout
    /\ "raises" \notin DOMAIN b
    /\ EndCall(b)

\* no connection, or no bytes, for the time of the ceiling: requests.post
\* raises Timeout
TimeOut ==
    /\ Waiting
    /\ d_silent = RequestTimeout
    /\ EndCall(Raises("Timeout", {}))

DispatchNext ==
    \/ Boot /\ UNCHANGED runlog
    \/ \E m \in Providers : BeginCall(m)
    \/ Tick
    \/ Connect
    \/ SendBytes
    \/ \E b \in DispatchAnswers : Fail(b)
    \/ \E b \in DispatchAnswers : Complete(b)
    \/ TimeOut

DispatchSpec == DispatchInit /\ [][DispatchNext]_vars

\* time passes and the library's timeout fires; the provider owes nothing
FairDispatchSpec == DispatchSpec /\ WF_vars(Tick) /\ WF_vars(TimeOut)

\* ------------------------------------------ properties of the dispatcher

\* what the provider did is a fault: an exception of the request, a status
\* outside 2xx, or a body that is not {"choices": [{"message": {"content":
\* <text>}}]}
IsFault(b) ==
    \/ "raises" \in DOMAIN b
    \/ b.status \notin 200..299
    \/ b.shape # "content"

\* C9: whatever the provider did and whichever provider is selected,
\* call_api returns without raising, and when what the provider did is a
\* fault it returns the failure outcome, no text.
C9_FaultsBecomeFailure ==
    d_pc = "returned" =>
        /\ d_out.raised = "none"
        /\ IsFault(d_attempts[1]) => d_out.result = None

\* C9 witness: with OpenAI selected the provider answered 200 with an empty
\* list of choices, and call_api returned no text.
C9_Witness ==
    /\ d_pc = "returned"
    /\ d_model = "openai"
    /\ d_attempts[1] = Responds(200, "choices_empty", <<SkilledAnalyst>>)
    /\ d_out.result = None
    /\ d_out.raised = "none"

\* C10: a call never waits beyond the ceiling, a call that lasted longer
\* than the ceiling returned no text, and every call returns.
C10_ReturnsWithinCeiling ==
    /\ [](Waiting => d_elapsed <= RequestTimeout)
    /\ []((d_pc = "returned" /\ d_elapsed > RequestTimeout) => d_out.result = None)
    /\ (Waiting ~> d_pc = "returned")

\* ------------------------------------------------- the refine loop alone

\* most keys ticked for one run of the loop
MaxSelected == 2

\* the keys ticked
LoopSections ==
    {"Summary", "Economics Skills", "Technical Skills", "Intel Corp Bullet 1"}

\* a key that refine_prompt_templates and default_refinements do not hold
UnknownSection == "Volunteering Bullet"

\* lines 746-765 for any key: a key without template gets the prompt of the
\* empty template, after the keyword arguments have been evaluated
BuildPromptOf(key, kw, instr) ==
    IF key \in Sections THEN BuildPrompt(key, kw, instr)
    ELSE IF \E field \in DOMAIN JoinedLists(kw) : JoinRaises(JoinedLists(kw)[field])
    THEN Raised("TypeError", {})
    ELSE Returned([important |-> Strip(instr),
                   template |-> "",
                   args |-> [field \in {} |-> <<>>]],
                  "none")

\* what the provider answers to the call of a key
LoopAnswers ==
    {Raises("Timeout", {}),
     Responds(200, "content", <<SkilledAnalyst>>),
     Responds(200, "content", <<SP, HY>>)}

\* the keyword records of a run: the default record, a parsed record, a
\* parsed record with a list under "automation_terms", a parsed record with
\* a number among the technical skills
LoopKeywords ==
    {default_keywords, ValidKeywords, NumberKeywords,
     [k \in RequiredKeySet \cup {"automation_terms"} |->
        IF k = "automation_terms" THEN List(<<S("cron")>>) ELSE ValidKeywords[k]]}

\* the ticked keys over a set of keys, in every order
OrdersOver(keys) ==
    {order \in TextsUpTo(keys, MaxSelected) :
        \A i \in 1..Len(order), j \in 1..Len(order) :
            order[i] = order[j] => i = j}

RangeOf(order) == {order[i] : i \in 1..Len(order)}

\* the inputs of a run of the loop that processes the keys in one order
InputsOf(order) ==
    {[order |-> order, answers |-> answers, keywords |-> kw,
      instructions |-> instr, before |-> before] :
        answers \in [RangeOf(order) -> LoopAnswers],
        kw \in LoopKeywords,
        instr \in Instructions,
        before \in {NoOverrides,
                    Store(NoOverrides, "Technical Skills", <<Ch("Earlier text")>>)}}

\* the inputs of a run of the loop over a set of keys
LoopInputs(keys) == UNION {InputsOf(order) : order \in OrdersOver(keys)}

\* the loop before its first iteration
StartRun(in) ==
    [at |-> 0, overrides |-> in.before, sent |-> [k \in {} |-> <<>>],
     raised |-> "none", ended |-> FALSE]

\* lines 744-771: one iteration, for the next key of the order
LoopStepOf(in, run) ==
    LET key == in.order[run.at + 1]
        prompt == BuildPromptOf(key, in.keywords, in.instructions)
        api == CallApi("kimi", RequiredSecrets, Attempts(in.answers[key]))
    IN IF prompt.raises # "none" THEN [run EXCEPT !.raised = prompt.raises]
       ELSE IF api.raised # "none"
       THEN [run EXCEPT !.raised = api.raised,
                        !.sent = Store(@, key, prompt.returns)]
       ELSE [run EXCEPT !.at = @ + 1,
                        !.sent = Store(@, key, prompt.returns),
                        !.overrides = AfterCall(@, key, api.result)]

RECURSIVE LoopRun(_, _)
\* the loop from a position to its end
LoopRun(in, run) ==
    IF run.raised # "none" \/ run.at = Len(in.order) THEN run
    ELSE LoopRun(in, LoopStepOf(in, run))

\* the ticked keys in the order of the options dict
CodeOrder(keys) == SelectSeq(options, LAMBDA k : k \in keys)

LoopStart(keys) ==
    /\ SessionOff
    /\ ExtractOff
    /\ DispatchOff
    /\ RenderOff
    /\ NormOff
    /\ l_in \in LoopInputs(keys)
    /\ l_run = StartRun(l_in)

LoopStep ==
    /\ l_run.raised = "none"
    /\ l_run.at < Len(l_in.order)
    /\ l_run' = LoopStepOf(l_in, l_run)
    /\ UNCHANGED <<session_vars, extract_vars, dispatch_vars, render_vars,
                   norm_vars, l_in>>

\* lines 772-773: the loop is over
LoopEnd ==
    /\ l_run.raised = "none"
    /\ l_run.at = Len(l_in.order)
    /\ ~l_run.ended
    /\ l_run' = [l_run EXCEPT !.ended = TRUE]
    /\ UNCHANGED <<session_vars, extract_vars, dispatch_vars, render_vars,
                   norm_vars, l_in>>

LoopInit == LoopStart(LoopSections)

LoopNext == LoopStep \/ LoopEnd

LoopSpec == LoopInit /\ [][LoopNext]_vars

\* the run of the loop is over: it ended or was aborted
LoopOver == l_run.ended \/ l_run.raised # "none"

AnyLoopInit == LoopStart({"Technical Skills", "Intel Corp Bullet 1", UnknownSection})

AnyLoopSpec == AnyLoopInit /\ [][LoopNext]_vars

C13_OverridesLifecycle ==
    /\ overrides = NoOverrides
    /\ [][/\ DOMAIN overrides \subseteq DOMAIN overrides'
          /\ overrides' # overrides =>
                /\ pc = "refine"
                /\ last'.key = options[NextSelected(cursor, checked)]
                /\ Truthy(last'.result)
                /\ DOMAIN overrides' = DOMAIN overrides \cup {last'.key}
                /\ \A k \in DOMAIN overrides \ {last'.key} :
                      overrides'[k] = overrides[k]]_vars

\* C13 witness: two entries are there after a call for one of them failed,
\* keywords were extracted and the document was built.
C13_Witness ==
    /\ Cardinality(DOMAIN overrides) = 2
    /\ last.result = None
    /\ last.key \in DOMAIN overrides
    /\ keywords # NoKeywords
    /\ document.built
    /\ pc = "idle"

\* ------------------------------------------------------ the build alone

\* the days on which a session builds the document
MaxDay == 2

BAR == Ch("|")

\* "Girum Wondemagegn"
OwnerName == <<Ch("Girum"), SP, Ch("Wondemagegn")>>

\* the characters re.sub(r'[<>:"/\\|?*]', '', text) removes
ForbiddenChars ==
    {Ch("<"), Ch(">"), Ch(":"), Ch("\""), Ch("/"), Ch("\\"), BAR, Ch("?"), Ch("*")}

UNDERSCORE == Ch("_")

RECURSIVE CollapseRuns(_)
\* re.sub(r'[\s_]+', '_', text): every run of whitespace and underscores
\* becomes one underscore
CollapseRuns(t) ==
    IF t = <<>> THEN <<>>
    ELSE IF Head(t) \in Whitespace \cup {UNDERSCORE}
    THEN <<UNDERSCORE>> \o CollapseRuns(LStripSet(t, Whitespace \cup {UNDERSCORE}))
    ELSE <<Head(t)>> \o CollapseRuns(Tail(t))

\* a faulty variant of clean_filename: the result is not stripped
clean_filename_unstripped(text) ==
    CollapseRuns(SelectSeq(text, LAMBDA c : c \notin ForbiddenChars))

\* lines 852-855: clean_filename(text)
clean_filename(text) ==
    LET cleaned == SelectSeq(text, LAMBDA c : c \notin ForbiddenChars)
        joined == CollapseRuns(cleaned)
    IN RStripSet(LStripSet(joined, {UNDERSCORE}), {UNDERSCORE})

RECURSIVE SplitBar(_)
\* result.split("|")
SplitBar(t) ==
    IF \E i \in 1..Len(t) : t[i] = BAR
    THEN LET i == CHOOSE i \in 1..Len(t) :
                    t[i] = BAR /\ \A j \in 1..(i - 1) : t[j] # BAR
         IN <<SubSeq(t, 1, i - 1)>> \o SplitBar(SubSeq(t, i + 1, Len(t)))
    ELSE <<t>>

\* lines 986-1004: extract_job_details(job_description), given what the
\* provider does to its request; the bare except gives (None, None)
extract_job_details(jd, b) ==
    IF Strip(jd) = <<>> THEN [title |-> None, company |-> None, posts |-> 0]
    ELSE LET api == CallApi("kimi", RequiredSecrets, Attempts(b))
             parts == IF IsStr(api.result) THEN SplitBar(api.result.text) ELSE <<>>
         IN IF Len(parts) = 2
            THEN [title |-> Str(Strip(parts[1])), company |-> Str(Strip(parts[2])),
                  posts |-> api.posts]
            ELSE [title |-> None, company |-> None, posts |-> api.posts]

\* lines 862-865: the file name generate_pdf_file derives
DerivedFilename(final_job_title, final_company_name, timestamp) ==
    IF final_job_title # <<>> /\ final_company_name # <<>>
    THEN [form |-> "title_company", title |-> clean_filename(final_job_title),
          company |-> clean_filename(final_company_name), date |-> timestamp]
    ELSE [form |-> "static", title |-> <<>>, company |-> <<>>, date |-> timestamp]

\* file_name="resume.pdf" of the download button
DownloadName ==
    [form |-> "resume.pdf", title |-> <<>>, company |-> <<>>, date |-> 0]

\* lines 849-984 and 1107-1114: generate_pdf_file() and the download button,
\* given what the provider does to the request of extract_job_details
generate_pdf_file(in, b) ==
    LET details == IF Strip(in.job_description) # <<>>
                   THEN extract_job_details(in.job_description, b)
                   ELSE [title |-> None, company |-> None, posts |-> 0]
        final_job_title == IF Truthy(details.title) THEN details.title.text
                           ELSE OwnerName
        final_company_name == IF Truthy(details.company) THEN details.company.text
                              ELSE OwnerName
        texts == [key \in Sections |-> BuildText(in.overrides, key)]
        pdf_bytes == [title |-> <<final_job_title, final_company_name>>,
                      keywords |-> <<final_job_title, final_company_name, in.date>>,
                      font |-> in.font,
                      texts |-> texts]
    IN [built |-> TRUE,
        font |-> in.font,
        content |-> texts,
        extracted |-> Truthy(details.title) /\ Truthy(details.company),
        posts |-> details.posts,
        writes |-> {k \in {"job_title", "company_name"} :
                       \/ k = "job_title" /\ ~Truthy(details.title)
                       \/ k = "company_name" /\ ~Truthy(details.company)},
        filename |-> DerivedFilename(final_job_title, final_company_name, in.date),
        pdf_bytes |-> pdf_bytes,
        download |-> [file_name |-> DownloadName, data |-> pdf_bytes]]

\* what a provider does to the job-details request of a build
BuildAnswers ==
    {Raises("Timeout", {}),
     Responds(200, "content", <<Ch("Data"), SP, Ch("Analyst"), SP, BAR, SP, Ch("Acme")>>),
     Responds(200, "content", <<Ch("ML"), Ch("/"), Ch("AI"), BAR, Ch("Initech")>>),
     Responds(200, "content", <<Ch("Data"), SP, Ch("Analyst"), BAR>>),
     Responds(200, "content", <<Ch("Data"), SP, Ch("Analyst")>>)}

\* lines 870-877: the font settings of the sliders
FontConfigs ==
    {[base_font |-> "Arial", header_size |-> 14, body_size |-> 13,
      contact_size |-> 13, line_spacing |-> 6, section_spacing |-> 3],
     [base_font |-> "Times", header_size |-> 16, body_size |-> 11,
      contact_size |-> 11, line_spacing |-> 5, section_spacing |-> 2]}

NoBuild == [built |-> FALSE]

\* a session about to build: its font settings, stored overrides, job
\* description and the day
BuildInputs ==
    [font : FontConfigs,
     overrides : {NoOverrides, Store(NoOverrides, "Technical Skills", <<SkilledAnalyst>>)},
     job_description : {<<>>, <<SP>>, <<Ch("Analyst at Acme")>>},
     date : {1}]

RenderInit ==
    /\ SessionOff /\ ExtractOff /\ DispatchOff /\ LoopOff /\ NormOff
    /\ r_in \in BuildInputs
    /\ r_doc = NoBuild
    /\ r_prev = NoBuild

\* one run of the render block: generate_pdf_file() and the download button
RenderBuild(b) ==
    /\ r_doc' = generate_pdf_file(r_in, b)
    /\ r_prev' = r_doc
    /\ UNCHANGED <<r_in, session_vars, extract_vars, dispatch_vars, loop_vars, norm_vars>>

\* datetime.now() moves to the next day
DayPasses ==
    /\ r_in.date < MaxDay
    /\ r_in' = [r_in EXCEPT !.date = @ + 1]
    /\ UNCHANGED <<r_doc, r_prev, session_vars, extract_vars, dispatch_vars,
                   loop_vars, norm_vars>>

RenderNext == (\E b \in BuildAnswers : RenderBuild(b)) \/ DayPasses

RenderSpec == RenderInit /\ [][RenderNext]_vars

C15_BuildIsPure ==
    r_doc.built => r_doc.posts = 0

\* C17: with an empty job description or a failed extraction of the
\* (job_title, company_name) pair the derived file name has the static
\* name+date form without title or company component; the title/company
\* form occurs only after a successful extraction
C17_FilenameFallsBackToStatic ==
    r_doc.built =>
        /\ (Strip(r_in.job_description) = <<>> \/ ~r_doc.extracted) =>
              /\ r_doc.filename.form = "static"
              /\ r_doc.filename.title = <<>>
              /\ r_doc.filename.company = <<>>
        /\ r_doc.filename.form = "title_company" => r_doc.extracted

\* C18: the file name attached to the download is the name the build derived
C18_DownloadIsNamedByDerivedFilename ==
    r_doc.built => r_doc.download.file_name = r_doc.filename

\* ------------------------------------------------------ text normalisation

\* the longest text handed to the page
MaxTextLen == 3

LSQ == Ch("left single quote")
RSQ == Ch("right single quote")
LDQ == Ch("left double quote")
RDQ == Ch("right double quote")
APOS == Ch("'")
QUOTE == Ch("\"")

\* lines 209-210 are read by Python as one key: the text between the two
\* triple quotes, colon, space, '"', comma, newline and eight spaces
TripleQuotedKey ==
    <<Ch(":"), SP, APOS, QUOTE, APOS, Ch(","), NL, SP, SP, SP, SP, SP, SP, SP, SP>>

\* lines 206-211: the replacements dict, in insertion order
replacements ==
    <<[orig |-> <<RSQ>>, repl |-> <<APOS>>],
      [orig |-> <<LSQ>>, repl |-> <<APOS>>],
      [orig |-> TripleQuotedKey, repl |-> <<QUOTE>>]>>

RECURSIVE Replace(_, _, _)
\* text.replace(orig, repl), orig not empty
Replace(text, orig, repl) ==
    IF Len(text) < Len(orig) THEN text
    ELSE IF SubSeq(text, 1, Len(orig)) = orig
    THEN repl \o Replace(SubSeq(text, Len(orig) + 1, Len(text)), orig, repl)
    ELSE <<Head(text)>> \o Replace(Tail(text), orig, repl)

RECURSIVE ReplaceAll(_, _)
ReplaceAll(text, pairs) ==
    IF pairs = <<>> THEN text
    ELSE ReplaceAll(Replace(text, Head(pairs).orig, Head(pairs).repl), Tail(pairs))

\* lines 205-214: normalize_text(text)
normalize_text(text) == ReplaceAll(text, replacements)

RECURSIVE SplitLines(_)
\* text.split("\n")
SplitLines(t) ==
    IF \E i \in 1..Len(t) : t[i] = NL
    THEN LET i == CHOOSE i \in 1..Len(t) :
                    t[i] = NL /\ \A j \in 1..(i - 1) : t[j] # NL
         IN <<SubSeq(t, 1, i - 1)>> \o SplitLines(SubSeq(t, i + 1, Len(t)))
    ELSE <<t>>

\* lines 811-846: the text ResumePDFA3 writes for a section title, for the
\* two parts of a subtitle, for a paragraph and for a bulleted body
PageTexts(text) ==
    [section_title |-> normalize_text(text),
     subtitle_left |-> normalize_text(text),
     subtitle_right |-> normalize_text(text),
     body |-> [i \in DOMAIN SplitLines(text) |-> normalize_text(SplitLines(text)[i])],
     bullet |-> [i \in DOMAIN SplitLines(text) |->
                    <<SP>> \o normalize_text(SplitLines(text)[i])]]

TextAlphabet == {LSQ, RSQ, LDQ, RDQ, APOS, QUOTE, NL, Ch("it")}

NormalizeInit ==
    /\ SessionOff /\ ExtractOff /\ DispatchOff /\ LoopOff /\ RenderOff
    /\ n_text \in TextsUpTo(TextAlphabet, MaxTextLen) \cup {TripleQuotedKey}
    /\ n_out = <<>>

\* the text goes through every text method of the page
WriteText ==
    /\ n_out = <<>>
    /\ n_out' = <<PageTexts(n_text)>>
    /\ UNCHANGED <<n_text, session_vars, extract_vars, dispatch_vars, loop_vars,
                   render_vars>>

NormalizeNext == WriteText

NormalizeSpec == NormalizeInit /\ [][NormalizeNext]_vars

Straight(c) ==
    IF c \in {LSQ, RSQ} THEN APOS ELSE IF c \in {LDQ, RDQ} THEN QUOTE ELSE c

Straightened(text) == [i \in DOMAIN text |-> Straight(text[i])]

\* C16: in every textual field each typographic quote is replaced by its
\* straight ASCII equivalent and every other character is unchanged
C16_QuotesAreNormalised ==
    n_out # <<>> =>
        LET page == n_out[1]
            lines == SplitLines(n_text)
        IN /\ page.section_title = Straightened(n_text)
           /\ page.subtitle_left = Straightened(n_text)
           /\ page.subtitle_right = Straightened(n_text)
           /\ page.body = [i \in DOMAIN lines |-> Straightened(lines[i])]
           /\ page.bullet = [i \in DOMAIN lines |-> <<SP>> \o Straightened(lines[i])]

\* ------------------------------------------------------ the prompts of a run

\* C19: for every ticked section, every keyword record and any instructions
\* the prompt is built: the loop never ends with an exception raised before
\* the request
C19_PromptAlwaysBuilds ==
    l_run.raised \notin {"KeyError", "TypeError"}

\* the items a keyword-list placeholder stands for: the list of its keyword
\* field, capped for key_skills and key_requirements, and a given list when
\* the record has no such field
PlaceholderItems(field, kw, absent) ==
    LET source == IF field \in {"key_skills", "tech_stack", "technical_skills"}
                  THEN "technical_skills" ELSE field
        items == IF source \in DOMAIN kw THEN kw[source].list ELSE absent
    IN IF field = "key_skills" THEN Take(items, 3)
       ELSE IF field = "key_requirements" THEN Take(items, 2)
       ELSE items

\* the keyword-list placeholders of a prompt that was sent
ListPlaceholders(key) == DOMAIN l_run.sent[key].args \ {"original", "additional"}

AbsentItems(field) ==
    CASE field = "metrics" ->
            <<S("efficiency gains"), S("performance improvements")>>
      [] field = "automation_terms" ->
            <<S("process automation"), S("workflow optimization")>>
      [] OTHER -> <<>>

MessagesFor(b) ==
    IF "raises" \in DOMAIN b
    THEN CASE b.raises \in {"ConnectionError", "Timeout"} -> {"connectivity"}
           [] "unauthorized" \in b.says -> {"authentication"}
           [] "404" \in b.says -> {"routing"}
           [] b.raises \in RequestExceptions -> {"unclassified", "stumbled"}
           [] OTHER -> {"unclassified"}
    ELSE CASE b.status = 401 -> {"authentication", "provider_error"}
           [] b.status = 404 -> {"routing", "provider_error"}
           [] b.status \notin 200..299 ->
                IF b.shape \in {"not_json", "array"}
                THEN {"provider_error", "provider_error_unreadable"}
                ELSE {"provider_error"}
           [] b.shape = "content_null" -> {"unexpected_format", "none"}
           [] OTHER -> {"unexpected_format"}

\* C21: a call that met a fault shows the message category of the fault's
\* class: connectivity, authentication, routing, provider error, unexpected
\* format, or unclassified for any other fault
C21_EachClassHasItsMessage ==
    (d_pc = "returned" /\ IsFault(d_attempts[1])) =>
        d_out.shown \in MessagesFor(d_attempts[1])

\* the provider refuses the credential of the request
CredentialRefused(b) == "raises" \notin DOMAIN b /\ b.status = 401

\* C22: a call made with a credential the provider refuses returns the
\* failure outcome with the authentication message, and does not raise
C22_BadCredentialIsAuthFailure ==
    (d_pc = "returned" /\ CredentialRefused(d_attempts[1])) =>
        /\ d_out.raised = "none"
        /\ d_out.result = None
        /\ d_out.shown = "authentication"

\* the provider answered with a body that has a text under
\* choices[0].message.content
HasContent(b) == "raises" \notin DOMAIN b /\ b.shape = "content"

\* C23 as stated: text is returned exactly for a 2xx answer with content,
\* the text is the content, and a status outside 2xx gives the failure
C23_TextIffSuccessStatus ==
    d_pc = "returned" =>
        LET b == d_attempts[1]
        IN /\ IsStr(d_out.result) <=> (HasContent(b) /\ b.status \in 200..299)
           /\ IsStr(d_out.result) => d_out.result.text = b.content
           /\ ("raises" \notin DOMAIN b /\ b.status \notin 200..299) =>
                 d_out.result = None

\* C23 amended: text is returned exactly for an answer of status 200 with
\* content, the text is the content, and every other status, 2xx or not,
\* gives the failure
C23_TextIffStatus200 ==
    d_pc = "returned" =>
        LET b == d_attempts[1]
        IN /\ IsStr(d_out.result) <=> (HasContent(b) /\ b.status = 200)
           /\ IsStr(d_out.result) => d_out.result.text = b.content
           /\ ("raises" \notin DOMAIN b /\ b.status # 200) => d_out.result = None

\* a call returned the content of a 200 answer
C23_Witness ==
    /\ d_pc = "returned"
    /\ d_attempts[1] = Responds(200, "content", <<SkilledAnalyst>>)
    /\ d_out.result = Str(<<SkilledAnalyst>>)

\* ------------------------------------------ the requests of a run

\* C24: in a run of the handler the keyword record is there before the first
\* refinement request, each request is a single one that has returned before
\* the next section is taken, and when the run has ended every ticked
\* section got exactly one request
C24_OneRequestPerSectionInOrder ==
    /\ DOMAIN runlog.calls # {} => keywords # NoKeywords
    /\ \A key \in DOMAIN runlog.calls :
          /\ key \in runlog.selected
          /\ runlog.calls[key].posts = 1
    /\ runlog.ended \in {"completed", "aborted"} =>
          DOMAIN runlog.calls = runlog.selected

\* ------------------------------------------------------ the file name alone

\* the longest text handed to clean_filename
MaxNameLen == 5

\* whitespace, an underscore, forbidden characters, a word
NameAlphabet == {SP, UNDERSCORE, Ch("/"), BAR, Ch("Acme")}

CleanInit ==
    /\ SessionOff /\ ExtractOff /\ DispatchOff /\ LoopOff /\ RenderOff
    /\ n_text \in TextsUpTo(NameAlphabet, MaxNameLen)
    /\ n_out = <<>>

\* clean_filename(text)
CleanName ==
    /\ n_out = <<>>
    /\ n_out' = <<clean_filename(n_text)>>
    /\ UNCHANGED <<n_text, session_vars, extract_vars, dispatch_vars, loop_vars,
                   render_vars>>

\* clean_filename of the result
CleanAgain ==
    /\ Len(n_out) = 1
    /\ n_out' = Append(n_out, clean_filename(n_out[1]))
    /\ UNCHANGED <<n_text, session_vars, extract_vars, dispatch_vars, loop_vars,
                   render_vars>>

CleanNext == CleanName \/ CleanAgain

CleanSpec == CleanInit /\ [][CleanNext]_vars

\* C25: the sanitised name has no forbidden character, no whitespace, no
\* two adjacent underscores and no underscore at either end, and
\* sanitising it again changes nothing
C25_SanitizedNameIsClean ==
    /\ n_out # <<>> =>
          LET name == n_out[1]
          IN /\ \A i \in 1..Len(name) : name[i] \notin ForbiddenChars \cup Whitespace
             /\ \A i \in 1..(Len(name) - 1) :
                   ~(name[i] = UNDERSCORE /\ name[i + 1] = UNDERSCORE)
             /\ name # <<>> => (name[1] # UNDERSCORE /\ name[Len(name)] # UNDERSCORE)
    /\ Len(n_out) = 2 => n_out[2] = n_out[1]

\* a text with a forbidden character between a space and an underscore was
\* sanitised twice
C25_Witness ==
    /\ n_text = <<Ch("Acme"), SP, BAR, UNDERSCORE, Ch("Acme")>>
    /\ n_out = <<<<Ch("Acme"), UNDERSCORE, Ch("Acme")>>,
                 <<Ch("Acme"), UNDERSCORE, Ch("Acme")>>>>

====
